---- MODULE Spec2Model ----
(***************************************************************************)
(* A model of src/src/arbitrage.js: the scan driven by main (chains and    *)
(* pairs in sequence, one concurrent provider task per aggregator of the   *)
(* pair, each wrapped in withRetry), and the pure functions computeSpread  *)
(* and sortOpportunities applied to bounded families of inputs.            *)
(*                                                                         *)
(* JavaScript numbers are modelled as exact reduced fractions plus the     *)
(* three non-finite values; floating-point rounding is not modelled.       *)
(***************************************************************************)
EXTENDS Integers, Sequences, FiniteSets, TLC

VARIABLES
    pc,            \* position of main / analyzePair
    ci,            \* index of the chain being evaluated (for ... of enabledChains)
    pi,            \* index of the pair being evaluated (for ... of chain.pairs)
    priceCache,    \* the module-level Map priceCache: coingeckoId -> usd
    sellInfo,      \* analyzePair's sellInfo
    tasks,         \* collectQuotes' tasks, one per aggregator, in configuration order
    quotes,        \* the list Promise.all(tasks) resolved to
    pairResults,   \* main's pairResults of the current chain
    chainReports,  \* main's chainReports
    report,        \* the report object once built and written
    enabledChains, \* main's enabledChains = parseChainFilter(config.chains)
    posted,        \* history: number of webhook posts issued
    lookupsSent,   \* history: the ids of the requests sent to the price service (line 69), in order
    completion,    \* history: the indices of the current pair's tasks in the order they settled
    webhook,       \* history: what line 304 read (url) and how the post of line 307 ended (delivery)
    fnArg,         \* argument of a pure function under test
    fnRet          \* its result

histVars == <<lookupsSent, completion, webhook>>
mainVars == <<pc, ci, pi, priceCache, sellInfo, tasks, quotes, pairResults, chainReports, report, enabledChains, posted,
              lookupsSent, completion, webhook>>
fnVars == <<fnArg, fnRet>>
vars == <<pc, ci, pi, priceCache, sellInfo, tasks, quotes, pairResults, chainReports, report, enabledChains, posted,
          lookupsSent, completion, webhook, fnArg, fnRet>>

(***************************************************************************)
(* JavaScript values.  A number is [k |-> "num", n, d] with d > 0 and n/d  *)
(* in lowest terms, so that record equality is numeric equality (===).     *)
(***************************************************************************)
Abs(x) == IF x < 0 THEN -x ELSE x

\* gcd and numOf are functions so that their arguments are evaluated once.
gcd[a \in Nat, b \in Nat] == IF b = 0 THEN a ELSE gcd[b, a % b]

numOf[n \in Int, d \in Int] ==
    LET s == IF d < 0 THEN -1 ELSE 1
        g == gcd[Abs(n), Abs(d)]
    IN  [k |-> "num", n |-> (s * n) \div g, d |-> (s * d) \div g]

Num(n, d) == numOf[n, d]

Int2Num(i) == [k |-> "num", n |-> i, d |-> 1]
NaN == [k |-> "nan", n |-> 0, d |-> 1]
PosInf == [k |-> "inf", n |-> 1, d |-> 1]
NegInf == [k |-> "ninf", n |-> -1, d |-> 1]
Null == [k |-> "null", n |-> 0, d |-> 1]
Undefined == [k |-> "undefined", n |-> 0, d |-> 1]
Zero == Int2Num(0)

\* ToBoolean of a number, null or undefined.
Truthy(v) == v.k \in {"inf", "ninf"} \/ (v.k = "num" /\ v.n # 0)

\* The global isFinite(v): Number(null) is 0, Number(undefined) is NaN.
IsFinite(v) == v.k \in {"num", "null"}

\* a < b, a - b, a * b, a / b on finite numbers (b # 0 for the division).
NumLess(a, b) == a.n * b.d < b.n * a.d
NumSub(a, b) == Num(a.n * b.d - b.n * a.d, a.d * b.d)
NumMul(a, b) == Num(a.n * b.n, a.d * b.d)
NumDiv(a, b) == Num(a.n * b.d, a.d * b.n)

\* Property access q.f: undefined when the object has no such property.
Prop(q, f) == IF f \in DOMAIN q THEN q[f] ELSE Undefined

\* Math.max(...s) and Math.min(...s) of finite numbers; of nothing, -Infinity and Infinity.
RECURSIVE SeqMax(_)
SeqMax(s) ==
    IF Len(s) = 0 THEN NegInf
    ELSE IF Len(s) = 1 THEN s[1]
    ELSE IF NumLess(s[1], SeqMax(Tail(s))) THEN SeqMax(Tail(s)) ELSE s[1]

RECURSIVE SeqMin(_)
SeqMin(s) ==
    IF Len(s) = 0 THEN PosInf
    ELSE IF Len(s) = 1 THEN s[1]
    ELSE IF NumLess(SeqMin(Tail(s)), s[1]) THEN SeqMin(Tail(s)) ELSE s[1]

\* valid.find(q => q.price === p): the first quote with that price.
findPrice(s, p) == s[CHOOSE i \in 1..Len(s) : s[i].price = p /\ \A j \in 1..(i - 1) : s[j].price # p]

(***************************************************************************)
(* computeSpread, arbitrage.js 177-187.                                    *)
(***************************************************************************)
validPrice(q) == Truthy(Prop(q, "price")) /\ IsFinite(Prop(q, "price"))

computeSpread(qs) ==
    LET valid == SelectSeq(qs, validPrice)
        prices == [i \in 1..Len(valid) |-> valid[i].price]
        maxP == SeqMax(prices)
        minP == SeqMin(prices)
        best == findPrice(valid, maxP)
        worst == findPrice(valid, minP)
    IN  IF Len(valid) < 2 THEN Null
        ELSE [spread_percent |-> NumMul(NumDiv(NumSub(maxP, minP), minP), Int2Num(100)),
              best |-> best.source, worst |-> worst.source]

(***************************************************************************)
(* Program constants.                                                      *)
(***************************************************************************)
MAX_RETRIES == 2
RETRY_DELAY_MS == 500
TOP_N == 20
DEFAULT_USD_SELL == 10
OX_HOSTS == {1, 56, 137}
COW_HOSTS == {1}

(***************************************************************************)
(* The loaded configuration (config/pairs.config.json is not part of the   *)
(* sources; this is one configuration of the documented shape).  Numbers   *)
(* of the configuration are JavaScript numbers; a key the JSON does not    *)
(* hold is absent from the record.                                         *)
(***************************************************************************)
BadPair ==
    [name |-> "BAD/USDC", fromSymbol |-> "BAD", toSymbol |-> "USDC",
     toDecimals |-> Int2Num(2), sampleSellAmount |-> Int2Num(1)]

PairFixed ==
    [name |-> "OP/USDC", fromSymbol |-> "OP", toSymbol |-> "USDC",
     fromDecimals |-> Int2Num(6), toDecimals |-> Int2Num(2),
     coingeckoId |-> "optimism", sampleSellAmount |-> Num(5, 2)]

PairUsd ==
    [name |-> "WETH/USDC", fromSymbol |-> "WETH", toSymbol |-> "USDC",
     fromDecimals |-> Int2Num(2), toDecimals |-> Int2Num(2),
     coingeckoId |-> "weth", usdSellTarget |-> Int2Num(20)]

PairMin ==
    [name |-> "WETH/DAI", fromSymbol |-> "WETH", toSymbol |-> "DAI",
     fromDecimals |-> Int2Num(2), toDecimals |-> Int2Num(2),
     coingeckoId |-> "weth", minBuyAmount |-> Int2Num(100)]

Chains ==
    << [id |-> 10, name |-> "Optimism", aggregators |-> <<"cow", "paraswap", "kyber">>,
        pairs |-> <<BadPair, PairFixed>>],
       [id |-> 1, name |-> "Ethereum", aggregators |-> <<"0x", "cow">>,
        defaultUsdSell |-> Int2Num(50), pairs |-> <<PairUsd, PairMin>>] >>

(***************************************************************************)
(* What the network can answer.  A provider payload is reduced to the      *)
(* fields the adapters read: price (0x: data.price), buyAmount (0x, cow:   *)
(* buyAmount; 1inch: toTokenAmount; paraswap: destAmount) and sellAmount   *)
(* (sellAmount, fromTokenAmount, srcAmount).  Amounts are decimal strings, *)
(* held as the number they denote; a missing field is absent.              *)
(***************************************************************************)
Payloads ==
    { [price |-> Num(51, 50), buyAmount |-> Int2Num(10200), sellAmount |-> Int2Num(10000)],
      [price |-> Num(49, 50), buyAmount |-> Int2Num(9800), sellAmount |-> Int2Num(10000)],
      [price |-> Num(4, 5), buyAmount |-> Int2Num(8000), sellAmount |-> Int2Num(10000)] }

NetworkErrors == {"timeout of 12000ms exceeded"}

\* data[id].usd of the CoinGecko answer: a price, or nothing.
UsdAnswers == {Int2Num(4), Undefined}

(***************************************************************************)
(* Arithmetic as JavaScript evaluates it on possibly non-finite operands.  *)
(***************************************************************************)
RECURSIVE Pow10(_)
Pow10(e) == IF e = 0 THEN 1 ELSE 10 * Pow10(e - 1)

\* Math.pow(10, decimals); Math.pow(10, undefined) is NaN.
MathPow10(dec) == IF dec.k = "num" /\ dec.d = 1 /\ dec.n >= 0 THEN Int2Num(Pow10(dec.n)) ELSE NaN

JsMul(a, b) == IF a.k = "num" /\ b.k = "num" THEN NumMul(a, b) ELSE NaN

JsDiv(a, b) ==
    IF a.k # "num" \/ b.k # "num" THEN NaN
    ELSE IF b.n # 0 THEN NumDiv(a, b)
    ELSE IF a.n = 0 THEN NaN
    ELSE IF a.n > 0 THEN PosInf ELSE NegInf

\* Math.floor
MathFloor(a) == IF a.k = "num" THEN Int2Num(a.n \div a.d) ELSE a

\* Math.max(x, y) of two numbers: NaN if either is NaN.
MathMax2(a, b) == IF a.k # "num" \/ b.k # "num" THEN NaN ELSE IF NumLess(a, b) THEN b ELSE a

\* Number(x.toFixed(digits)): rounded to that many decimals, half away from zero.
ToFixed(a, digits) ==
    LET p == Pow10(digits)
        twice == 2 * Abs(a.n) * p + a.d
        mag == twice \div (2 * a.d)
    IN  IF a.k # "num" THEN a ELSE Num((IF a.n < 0 THEN -1 ELSE 1) * mag, p)

(***************************************************************************)
(* decorateError, arbitrage.js 52-56: label, " failed", the status when    *)
(* the failure carries one, and the reason.  Failures here carry no HTTP   *)
(* response, so the reason is err.message.                                 *)
(***************************************************************************)
decorateError(err, label) == <<label, "failed", err>>

(***************************************************************************)
(* normalizeAmount, arbitrage.js 58-63.                                    *)
(***************************************************************************)
normalizeAmount(raw, decimals) ==
    IF raw.k \in {"null", "undefined"} THEN Null
    ELSE IF ~IsFinite(raw) THEN Null
    ELSE JsDiv(raw, MathPow10(decimals))

(***************************************************************************)
(* The provider adapters, arbitrage.js 99-140, as they reduce a payload.   *)
(***************************************************************************)
derivedPrice(data) ==
    IF data.buyAmount.k # "undefined" /\ data.sellAmount.k # "undefined"
    THEN JsDiv(data.buyAmount, data.sellAmount) ELSE Null

quote0x(data) ==
    [source |-> "0x", price |-> IF data.price.k = "undefined" THEN NaN ELSE data.price,
     buyAmount |-> data.buyAmount, sellAmount |-> data.sellAmount]

quote1inch(data) ==
    [source |-> "1inch", price |-> derivedPrice(data),
     buyAmount |-> data.buyAmount, sellAmount |-> data.sellAmount]

quoteParaswap(data) ==
    [source |-> "paraswap", price |-> derivedPrice(data),
     buyAmount |-> data.buyAmount, sellAmount |-> data.sellAmount]

quoteCow(data) ==
    [source |-> "cow", price |-> derivedPrice(data),
     buyAmount |-> data.buyAmount, sellAmount |-> data.sellAmount]

\* The failure fn() raises before any request is sent, or "" when it sends one.
adapterThrows(agg, chainId) ==
    CASE agg = "0x" -> IF chainId \in OX_HOSTS THEN "" ELSE "0x not supported for chain"
      [] agg = "cow" -> IF chainId \in COW_HOSTS THEN "" ELSE "CowSwap not supported for chain"
      [] agg \in {"1inch", "paraswap"} -> ""
      [] OTHER -> "Unknown aggregator " \o agg

adapterResult(agg, data) ==
    CASE agg = "0x" -> quote0x(data)
      [] agg = "1inch" -> quote1inch(data)
      [] agg = "paraswap" -> quoteParaswap(data)
      [] agg = "cow" -> quoteCow(data)

(***************************************************************************)
(* normalizeQuote, arbitrage.js 171-175.  Records cannot be spread, so the *)
(* four properties of res are copied one by one.                           *)
(***************************************************************************)
normalizeQuote(res, pair) ==
    [source |-> res.source, price |-> res.price,
     buyAmount |-> res.buyAmount, sellAmount |-> res.sellAmount,
     buyAmountHuman |-> normalizeAmount(res.buyAmount, Prop(pair, "toDecimals")),
     sellAmountHuman |-> normalizeAmount(res.sellAmount, Prop(pair, "fromDecimals"))]

(***************************************************************************)
(* calculateSellAmount, arbitrage.js 75-97.  BigInt(x) raises a RangeError *)
(* unless x is an integer; a raise is the record [throws |-> message].     *)
(***************************************************************************)
BigIntOf(x) == IF x.k = "num" /\ x.d = 1 THEN x ELSE [throws |-> "RangeError: cannot be converted to a BigInt"]

firstTruthy(a, b, c) == IF Truthy(a) THEN a ELSE IF Truthy(b) THEN b ELSE c

usdTargetOf(pair, chain) ==
    firstTruthy(Prop(pair, "usdSellTarget"), Prop(chain, "defaultUsdSell"), Int2Num(DEFAULT_USD_SELL))

\* lines 77-80: the explicit sample amount.
sizeFixed(pair) ==
    LET raw == BigIntOf(MathFloor(JsMul(pair.sampleSellAmount, MathPow10(Prop(pair, "fromDecimals")))))
    IN  IF "throws" \in DOMAIN raw THEN raw ELSE [raw |-> raw, human |-> pair.sampleSellAmount]

\* sizeFallback without the floor of one token.
sizeFallbackUnclamped(pair, chain) ==
    LET fallback == JsDiv(usdTargetOf(pair, chain), Int2Num(1000))
        raw == BigIntOf(MathFloor(JsMul(fallback, MathPow10(Prop(pair, "fromDecimals")))))
    IN  IF "throws" \in DOMAIN raw THEN raw ELSE [raw |-> raw, human |-> fallback]

\* lines 94-96: the default below the try block.
sizeFallback(pair, chain) ==
    LET fallback == MathMax2(Int2Num(1), JsDiv(usdTargetOf(pair, chain), Int2Num(1000)))
        raw == BigIntOf(MathFloor(JsMul(fallback, MathPow10(Prop(pair, "fromDecimals")))))
    IN  IF "throws" \in DOMAIN raw THEN raw ELSE [raw |-> raw, human |-> fallback]

\* lines 82-96 once fetchTokenUsdPrice has returned price, or has raised.
sizeFromLookup(pair, chain, price, raised) ==
    LET tokens == JsDiv(usdTargetOf(pair, chain), price)
        raw == BigIntOf(MathMax2(Int2Num(1), MathFloor(JsMul(tokens, MathPow10(Prop(pair, "fromDecimals"))))))
    IN  IF ~raised /\ Truthy(price) /\ "throws" \notin DOMAIN raw
        THEN [raw |-> raw, human |-> tokens]
        ELSE sizeFallback(pair, chain)

(***************************************************************************)
(* withRetry, arbitrage.js 39-50, and the task collectQuotes builds around *)
(* it (161-165).  A task is [agg, label, st, attempt, quote] plus three     *)
(* history fields: calls counts the invocations of fn, slept lists the     *)
(* delays of line 47, got is the payload the successful invocation         *)
(* received.                                                               *)
(***************************************************************************)
NoPayload == [price |-> Undefined, buyAmount |-> Undefined, sellAmount |-> Undefined]

labelOf(agg, pair) == <<agg, pair.name>>

\* errorQuote shaped like a priced quote, with empty price and amounts.
errorQuotePadded(agg, message) ==
    [source |-> agg, error |-> message, price |-> Null, buyAmountHuman |-> Null, sellAmountHuman |-> Null]

\* line 164: .catch(err => ({ source: agg, error: err.message }))
errorQuote(agg, message) == [source |-> agg, error |-> message]

\* retryCatch with the bound tested after the increment: one attempt too many.
retryCatchOneMore(t, err, label) ==
    IF t.attempt > MAX_RETRIES
    THEN [t EXCEPT !.st = "settled", !.quote = [source |-> t.agg, error |-> decorateError(err, label)]]
    ELSE [t EXCEPT !.attempt = @ + 1, !.st = "backoff", !.slept = Append(@, RETRY_DELAY_MS * (t.attempt + 1))]

\* retryCatch sleeping the base delay before every retry.
retryCatchFlatDelay(t, err, label) ==
    IF t.attempt >= MAX_RETRIES
    THEN [t EXCEPT !.st = "settled", !.quote = [source |-> t.agg, error |-> decorateError(err, label)]]
    ELSE [t EXCEPT !.attempt = @ + 1, !.st = "backoff", !.slept = Append(@, RETRY_DELAY_MS)]

\* lines 44-48: the catch block of one attempt; slept records the sleep of line 47.
retryCatch(t, err, label) ==
    IF t.attempt >= MAX_RETRIES
    THEN [t EXCEPT !.st = "settled", !.quote = errorQuote(t.agg, decorateError(err, label))]
    ELSE [t EXCEPT !.attempt = @ + 1, !.st = "backoff", !.slept = Append(@, RETRY_DELAY_MS * (t.attempt + 1))]

\* line 43: fn() is invoked; an adapter that raises before sending lands in the catch block.
startAttempt(t, chainId, label) ==
    LET u == [t EXCEPT !.calls = @ + 1]
        err == adapterThrows(t.agg, chainId)
    IN  IF err = "" THEN [u EXCEPT !.st = "inflight"] ELSE retryCatch(u, err, label)

\* lines 43 and 163: the attempt resolved; .then(res => normalizeQuote(res, pair))
attemptResolved(t, data, pair) ==
    [t EXCEPT !.st = "settled", !.got = data,
              !.quote = normalizeQuote(adapterResult(t.agg, data), pair)]

newTask(agg, label) ==
    [agg |-> agg, label |-> label, st |-> "new", attempt |-> 0, calls |-> 0, slept |-> <<>>,
     got |-> NoPayload, quote |-> Undefined]

\* dispatchTasks leaving out the aggregators that have no adapter.
dispatchTasksSkippingUnknown(chain, pair) ==
    LET all == IF "aggregators" \in DOMAIN chain THEN chain.aggregators ELSE <<>>
        aggs == SelectSeq(all, LAMBDA a : a \in {"0x", "1inch", "paraswap", "cow"})
    IN  [i \in 1..Len(aggs) |-> startAttempt(newTask(aggs[i], labelOf(aggs[i], pair)), chain.id, labelOf(aggs[i], pair))]

\* dispatchTasks awaiting each task inside the loop: only the first is started.
dispatchTasksOneByOne(chain, pair) ==
    LET aggs == IF "aggregators" \in DOMAIN chain THEN chain.aggregators ELSE <<>>
    IN  [i \in 1..Len(aggs) |->
            IF i = 1 THEN startAttempt(newTask(aggs[i], labelOf(aggs[i], pair)), chain.id, labelOf(aggs[i], pair))
            ELSE newTask(aggs[i], labelOf(aggs[i], pair))]

\* lines 143-166: one task per aggregator, each started before any is awaited.
dispatchTasks(chain, pair) ==
    LET aggs == IF "aggregators" \in DOMAIN chain THEN chain.aggregators ELSE <<>>
    IN  [i \in 1..Len(aggs) |-> startAttempt(newTask(aggs[i], labelOf(aggs[i], pair)), chain.id, labelOf(aggs[i], pair))]

\* promiseAll keeping only the tasks that got an answer.
promiseAllFulfilled(ts) ==
    LET all == [i \in 1..Len(ts) |-> ts[i].quote] IN SelectSeq(all, LAMBDA q : "error" \notin DOMAIN q)

\* promiseAll yielding the values in the order the tasks settled.
promiseAllByCompletion(ts) == [k \in 1..Len(completion) |-> ts[completion[k]].quote]

\* line 168: Promise.all(tasks) resolves to the tasks' values, in the tasks' order.
promiseAll(ts) == [i \in 1..Len(ts) |-> ts[i].quote]

(***************************************************************************)
(* analyzePair, arbitrage.js 192-219, from the quotes on.                  *)
(***************************************************************************)
buyOrZero(q) == IF Truthy(Prop(q, "buyAmountHuman")) THEN q.buyAmountHuman ELSE Zero

bestBuyOf(qs) == IF Len(qs) > 0 THEN SeqMax([i \in 1..Len(qs) |-> buyOrZero(qs[i])]) ELSE Zero

liquidityFlagOf(pair, qs) ==
    LET min == Prop(pair, "minBuyAmount")
        bestBuy == bestBuyOf(qs)
    IN  IF Truthy(min) /\ NumLess(bestBuy, min)
        THEN [k |-> "flag", bestBuy |-> ToFixed(bestBuy, 4), min |-> min]
        ELSE Null

\* attachesSpread without the liquidity test.
attachesSpreadUnguarded(spread, liquidityFlag) == spread # Null

\* line 213: if (spread && !liquidityFlag)
attachesSpread(spread, liquidityFlag) == spread # Null /\ liquidityFlag = Null

\* lines 192-219.  The object literal always has the keys minBuyAmount and
\* liquidity_flag (undefined when there is none); spread_percent, best and worst
\* are added by line 213 only.
analyzeResult(chain, pair, sell, qs) ==
    IF attachesSpread(computeSpread(qs), liquidityFlagOf(pair, qs))
    THEN [pair |-> pair.name, chainId |-> chain.id, chain |-> chain.name,
          sellAmount |-> ToFixed(sell.human, 6),
          sellToken |-> pair.fromSymbol, buyToken |-> pair.toSymbol,
          quotes |-> qs,
          minBuyAmount |-> Prop(pair, "minBuyAmount"),
          liquidity_flag |-> IF liquidityFlagOf(pair, qs) = Null THEN Undefined ELSE liquidityFlagOf(pair, qs),
          spread_percent |-> computeSpread(qs).spread_percent,
          best |-> computeSpread(qs).best,
          worst |-> computeSpread(qs).worst]
    ELSE [pair |-> pair.name, chainId |-> chain.id, chain |-> chain.name,
          sellAmount |-> ToFixed(sell.human, 6),
          sellToken |-> pair.fromSymbol, buyToken |-> pair.toSymbol,
          quotes |-> qs,
          minBuyAmount |-> Prop(pair, "minBuyAmount"),
          liquidity_flag |-> IF liquidityFlagOf(pair, qs) = Null THEN Undefined ELSE liquidityFlagOf(pair, qs)]

\* pairError without the error field.
pairErrorUnmarked(chain, pair, message) ==
    [pair |-> pair.name, chainId |-> chain.id, chain |-> chain.name]

\* main, line 274: the result recorded for a pair whose evaluation raised.
pairError(chain, pair, message) ==
    [pair |-> pair.name, chainId |-> chain.id, chain |-> chain.name, error |-> message]

(***************************************************************************)
(* sortOpportunities, arbitrage.js 222-224: filter on a truthy             *)
(* spread_percent, then Array.prototype.sort (stable) with the comparator  *)
(* b.spread_percent - a.spread_percent.                                    *)
(***************************************************************************)
hasSpread(r) == Truthy(Prop(r, "spread_percent"))

\* x goes after every element the comparator does not order after it.
RECURSIVE insertDesc(_, _)
insertDesc(s, x) ==
    IF s = <<>> THEN <<x>>
    ELSE IF NumLess(s[1].spread_percent, x.spread_percent) THEN <<x>> \o s
    ELSE <<s[1]>> \o insertDesc(Tail(s), x)

RECURSIVE sortDesc(_)
sortDesc(s) == IF s = <<>> THEN <<>> ELSE insertDesc(sortDesc(SubSeq(s, 1, Len(s) - 1)), s[Len(s)])

sortOpportunities(list) == sortDesc(SelectSeq(list, hasSpread))

RECURSIVE flatOpportunities(_)
flatOpportunities(crs) ==
    IF crs = <<>> THEN <<>> ELSE crs[1].opportunities \o flatOpportunities(Tail(crs))

RECURSIVE sumTotalPairs(_)
sumTotalPairs(crs) == IF crs = <<>> THEN 0 ELSE crs[1].total_pairs + sumTotalPairs(Tail(crs))

\* slice with the end index included: one entry too many.
sliceInclusive(s, n) == SubSeq(s, 1, IF Len(s) < n + 1 THEN Len(s) ELSE n + 1)

\* Array.prototype.slice(0, n)
slice(s, n) == SubSeq(s, 1, IF Len(s) < n THEN Len(s) ELSE n)

\* chainReportOf counting only the pairs whose evaluation did not fail.
chainReportOfCountingSuccesses(chain, results) ==
    [chain |-> chain.name, chainId |-> chain.id,
     total_pairs |-> Len(SelectSeq(results, LAMBDA r : "error" \notin DOMAIN r)),
     opportunities |-> sortOpportunities(results), raw |-> results]

\* main, line 278
chainReportOf(chain, results) ==
    [chain |-> chain.name, chainId |-> chain.id, total_pairs |-> Len(results),
     opportunities |-> sortOpportunities(results), raw |-> results]

\* main, lines 281-292 (one run, so the timestamp is left out)
topOf(crs) == slice(sortOpportunities(flatOpportunities(crs)), TOP_N)

reportOf(crs) ==
    [chains |-> crs, top |-> topOf(crs),
     summary |-> [total_chains |-> Len(crs), total_pairs |-> sumTotalPairs(crs),
                  candidates |-> Len(topOf(crs))]]

\* parseChainFilter, lines 317-322.  env is [set |-> FALSE] when CHAIN_IDS is unset or
\* empty, else [set |-> TRUE, ids |-> the comma-separated items as Number() reads them].
parseChainFilter(chains, env) ==
    IF ~env.set THEN chains
    ELSE SelectSeq(chains, LAMBDA c : \E i \in 1..Len(env.ids) : env.ids[i] # 0 /\ env.ids[i] = c.id)

\* The values of CHAIN_IDS the model runs with.
ChainIdsEnv == {[set |-> FALSE], [set |-> TRUE, ids |-> <<0, 1>>]}

(***************************************************************************)
(* The scan: main, arbitrage.js 262-315, with analyzePair (189-220) and    *)
(* collectQuotes (142-169) unfolded at their awaits.                       *)
(*   pc = "main"       at the head of the pair loop                        *)
(*        "lookup"     awaiting the CoinGecko answer (line 69)             *)
(*        "collect"    awaiting Promise.all(tasks) (lines 168, 191)        *)
(*        "collected"  Promise.all resolved, analyzePair resumes           *)
(*        "written"    the report files are written (line 300)             *)
(*        "webhook"    awaiting the webhook post (line 307)                *)
(*        "done"       main returned                                       *)
(***************************************************************************)
curChain == enabledChains[ci]
pairsOf(chain) == IF "pairs" \in DOMAIN chain THEN chain.pairs ELSE <<>>
curPair == pairsOf(curChain)[pi]

MainInit ==
    /\ pc = "main"
    /\ ci = 1
    /\ pi = 1
    /\ priceCache = <<>>
    /\ sellInfo = Null
    /\ tasks = <<>>
    /\ quotes = <<>>
    /\ pairResults = <<>>
    /\ chainReports = <<>>
    /\ report = Null
    /\ posted = 0
    /\ lookupsSent = <<>>
    /\ completion = <<>>
    /\ webhook = [url |-> "unread", delivery |-> "none"]
    /\ \E env \in ChainIdsEnv : enabledChains = parseChainFilter(Chains, env)

FnIdle ==
    /\ fnArg = Null
    /\ fnRet = Null

Init == MainInit /\ FnIdle

\* pushResult with a catch block that records nothing.
pushResultDropsFailed(results, chain, pair, outcome) ==
    IF "throws" \in DOMAIN outcome THEN results ELSE Append(results, outcome)

\* main, lines 272-275: r is pushed, or the error result when analyzePair raised.
pushResult(results, chain, pair, outcome) ==
    IF "throws" \in DOMAIN outcome
    THEN Append(results, pairError(chain, pair, outcome.throws))
    ELSE Append(results, outcome)

\* analyzePair resumes with the sizing s: it raises, or it calls collectQuotes.
Sized(s) ==
    IF "throws" \in DOMAIN s
    THEN /\ pairResults' = pushResult(pairResults, curChain, curPair, s)
         /\ pi' = pi + 1
         /\ pc' = "main"
         /\ UNCHANGED <<sellInfo, tasks>>
    ELSE /\ sellInfo' = s
         /\ tasks' = dispatchTasks(curChain, curPair)
         /\ pc' = "collect"
         /\ UNCHANGED <<pairResults, pi>>

\* lookupDue with the price fetched before the fixed amount is looked at.
lookupDueBeforeFixedTest(pair, cache) ==
    /\ "coingeckoId" \in DOMAIN pair
    /\ pair.coingeckoId \notin DOMAIN cache

\* lines 77, 66-69: no fixed amount, a lookup id, and the cache does not have it: the request is sent.
lookupDue(pair, cache) ==
    /\ ~Truthy(Prop(pair, "sampleSellAmount"))
    /\ "coingeckoId" \in DOMAIN pair
    /\ pair.coingeckoId \notin DOMAIN cache

\* analyzePair is called for the next pair: calculateSellAmount up to its first await.
BeginPair ==
    /\ pc = "main"
    /\ ci <= Len(enabledChains)
    /\ pi <= Len(pairsOf(curChain))
    /\ IF Truthy(Prop(curPair, "sampleSellAmount"))
       THEN Sized(sizeFixed(curPair))
       ELSE IF "coingeckoId" \notin DOMAIN curPair
       THEN Sized(sizeFromLookup(curPair, curChain, Null, FALSE))
       ELSE IF curPair.coingeckoId \in DOMAIN priceCache
       THEN Sized(sizeFromLookup(curPair, curChain, priceCache[curPair.coingeckoId], FALSE))
       ELSE /\ pc' = "lookup"
            /\ UNCHANGED <<sellInfo, tasks, pairResults, pi>>
    /\ lookupsSent' = IF lookupDue(curPair, priceCache) THEN Append(lookupsSent, curPair.coingeckoId) ELSE lookupsSent
    /\ UNCHANGED <<ci, priceCache, quotes, chainReports, report, enabledChains, posted, completion, webhook, fnVars>>

\* cacheAfter storing whatever the answer holds.
cacheAfterAnyAnswer(cache, id, usd) ==
    [x \in DOMAIN cache \cup {id} |-> IF x = id THEN usd ELSE cache[x]]

\* fetchTokenUsdPrice, lines 69-72: the answer arrived, with usd or without.
cacheAfter(cache, id, usd) ==
    IF Truthy(usd) THEN [x \in DOMAIN cache \cup {id} |-> IF x = id THEN usd ELSE cache[x]] ELSE cache

LookupAnswers(usd) ==
    /\ pc = "lookup"
    /\ priceCache' = cacheAfter(priceCache, curPair.coingeckoId, usd)
    /\ Sized(sizeFromLookup(curPair, curChain, IF Truthy(usd) THEN usd ELSE Null, FALSE))
    /\ UNCHANGED <<ci, quotes, chainReports, report, enabledChains, posted, histVars, fnVars>>

\* The request of line 69 failed: calculateSellAmount's catch, line 90.
LookupFails ==
    /\ pc = "lookup"
    /\ Sized(sizeFromLookup(curPair, curChain, Null, TRUE))
    /\ UNCHANGED <<ci, priceCache, quotes, chainReports, report, enabledChains, posted, histVars, fnVars>>

taskFrame == <<pc, ci, pi, priceCache, sellInfo, quotes, pairResults, chainReports, report, enabledChains, posted,
               lookupsSent, webhook, fnVars>>

\* The settle order once task i has taken a step that led to ts.
settledNow(ts, i) == IF ts[i].st = "settled" THEN Append(completion, i) ELSE completion

\* The request of task i is answered with the payload data.
AttemptSucceeds(i, data) ==
    /\ pc = "collect"
    /\ tasks[i].st = "inflight"
    /\ tasks' = [tasks EXCEPT ![i] = attemptResolved(tasks[i], data, curPair)]
    /\ completion' = Append(completion, i)
    /\ UNCHANGED taskFrame

\* The request of task i fails (network error, timeout, error status).
AttemptFails(i, err) ==
    /\ pc = "collect"
    /\ tasks[i].st = "inflight"
    /\ tasks' = [tasks EXCEPT ![i] = retryCatch(tasks[i], err, labelOf(tasks[i].agg, curPair))]
    /\ completion' = settledNow(tasks', i)
    /\ UNCHANGED taskFrame

\* The sleep of line 47 ends and the loop of withRetry invokes fn again.
BackoffEnds(i) ==
    /\ pc = "collect"
    /\ tasks[i].st = "backoff"
    /\ tasks' = [tasks EXCEPT ![i] = startAttempt(tasks[i], curChain.id, labelOf(tasks[i].agg, curPair))]
    /\ completion' = settledNow(tasks', i)
    /\ UNCHANGED taskFrame

\* joined resolving as soon as one task has settled (Promise.race, Promise.any).
joinedOnFirst(ts) == ts = <<>> \/ \E i \in 1..Len(ts) : ts[i].st = "settled"

\* line 168: Promise.all(tasks) resolves once every task has (no task rejects: line 164).
joined(ts) == \A i \in 1..Len(ts) : ts[i].st = "settled"

\* Every task has settled: Promise.all resolves and collectQuotes returns.
AllSettled ==
    /\ pc = "collect"
    /\ joined(tasks)
    /\ quotes' = promiseAll(tasks)
    /\ pc' = "collected"
    /\ UNCHANGED <<ci, pi, priceCache, sellInfo, tasks, pairResults, chainReports, report, enabledChains, posted, histVars, fnVars>>

\* analyzePair, lines 192-219, and main's push, line 272.
FinishPair ==
    /\ pc = "collected"
    /\ pairResults' = pushResult(pairResults, curChain, curPair, analyzeResult(curChain, curPair, sellInfo, quotes))
    /\ pi' = pi + 1
    /\ pc' = "main"
    /\ sellInfo' = Null
    /\ tasks' = <<>>
    /\ quotes' = <<>>
    /\ completion' = <<>>
    /\ UNCHANGED <<ci, priceCache, chainReports, report, enabledChains, posted, lookupsSent, webhook, fnVars>>

\* main, lines 277-278: the pair loop of a chain is over.
EndChain ==
    /\ pc = "main"
    /\ ci <= Len(enabledChains)
    /\ pi > Len(pairsOf(curChain))
    /\ chainReports' = Append(chainReports, chainReportOf(curChain, pairResults))
    /\ pairResults' = <<>>
    /\ ci' = ci + 1
    /\ pi' = 1
    /\ UNCHANGED <<pc, priceCache, sellInfo, tasks, quotes, report, enabledChains, posted, histVars, fnVars>>

\* main, lines 281-302: the report is built and its files are written.
WriteReport ==
    /\ pc = "main"
    /\ ci > Len(enabledChains)
    /\ report' = reportOf(chainReports)
    /\ pc' = "written"
    /\ UNCHANGED <<ci, pi, priceCache, sellInfo, tasks, quotes, pairResults, chainReports, enabledChains, posted, histVars, fnVars>>

\* main, lines 304-307: WEBHOOK_URL is read; the post is sent when it is set and top is not empty.
\* webhookDue without the test of the top list.
webhookDueAnyReport(webhookSet, rep) == webhookSet

webhookDue(webhookSet, rep) == webhookSet /\ Len(rep.top) > 0

ReadWebhook(webhookSet) ==
    /\ pc = "written"
    /\ IF webhookDue(webhookSet, report)
       THEN pc' = "webhook" /\ posted' = posted + 1
       ELSE pc' = "done" /\ UNCHANGED posted
    /\ webhook' = [webhook EXCEPT !.url = IF webhookSet THEN "set" ELSE "unset"]
    /\ UNCHANGED <<ci, pi, priceCache, sellInfo, tasks, quotes, pairResults, chainReports, report, enabledChains,
                   lookupsSent, completion, fnVars>>

\* main, lines 307-311: the post succeeded, or failed and the failure was logged.
WebhookSettles(ok) ==
    /\ pc = "webhook"
    /\ pc' = "done"
    /\ webhook' = [webhook EXCEPT !.delivery = IF ok THEN "ok" ELSE "failed"]
    /\ UNCHANGED <<ci, pi, priceCache, sellInfo, tasks, quotes, pairResults, chainReports, report, enabledChains, posted,
                   lookupsSent, completion, fnVars>>

\* One step of the run, the providers answering with payloads of the set given.
NextWith(payloads) ==
    \/ BeginPair
    \/ \E usd \in UsdAnswers : LookupAnswers(usd)
    \/ LookupFails
    \/ \E i \in DOMAIN tasks, data \in payloads : AttemptSucceeds(i, data)
    \/ \E i \in DOMAIN tasks, err \in NetworkErrors : AttemptFails(i, err)
    \/ \E i \in DOMAIN tasks : BackoffEnds(i)
    \/ AllSettled
    \/ FinishPair
    \/ EndChain
    \/ WriteReport
    \/ \E webhookSet \in BOOLEAN : ReadWebhook(webhookSet)
    \/ \E ok \in BOOLEAN : WebhookSettles(ok)

Next == NextWith(Payloads)

Spec == Init /\ [][Next]_vars

\* The run under fairness.  Every request ends, answered or failed, within the
\* axios timeout (line 33), and every sleep ends (line 36): a step that stays
\* possible is eventually taken.  Whether the run ends does not depend on what an
\* answer holds, so one payload stands for all answers here; 0x reads its price
\* and cow derives another from its amounts, so that a pair can have a spread.
FairPayloads == {[price |-> Num(51, 50), buyAmount |-> Int2Num(9800), sellAmount |-> Int2Num(10000)]}

FairNext == NextWith(FairPayloads)

FairSpec == Init /\ [][FairNext]_vars /\ WF_vars(FairNext)

(***************************************************************************)
(* Properties of collectQuotes and withRetry, checked under Spec.          *)
(***************************************************************************)
aggregatorsOf(chain) == IF "aggregators" \in DOMAIN chain THEN chain.aggregators ELSE <<>>

answered(t) == t.got # NoPayload

\* The quote a task yields from the payload it received, whatever its siblings did.
ownQuote(t, pair) == normalizeQuote(adapterResult(t.agg, t.got), pair)

\* C1: when collectQuotes returns, the list holds exactly one quote per enabled
\* provider (the i-th quote is the i-th aggregator's), and the quote of every
\* provider that got an answer is the normalized quote of that answer alone,
\* whatever the outcomes of its siblings.
C1_PartialFailureIsolation ==
    pc = "collected" =>
        /\ Len(quotes) = Len(aggregatorsOf(curChain))
        /\ \A i \in 1..Len(aggregatorsOf(curChain)) :
              /\ quotes[i].source = aggregatorsOf(curChain)[i]
              /\ answered(tasks[i]) => quotes[i] = ownQuote(tasks[i], curPair)

\* C1 witness: collectQuotes returned with a failed provider next to a provider
\* that succeeded on a retry.
C1_Witness ==
    /\ pc = "collected"
    /\ \E i, j \in 1..Len(quotes) :
          /\ "error" \in DOMAIN quotes[i]
          /\ answered(tasks[j])
          /\ tasks[j].calls = 2
          /\ quotes[j].price = Num(51, 50)

\* C2: withRetry invokes the operation at most 3 times; a task that settled with
\* a result made its successful invocation last (one invocation per failure
\* before it, none after), a task that settled with an error made exactly 3
\* invocations, and a settled task is never invoked again.
C2_AtMostThreeAttempts ==
    /\ [](\A i \in DOMAIN tasks :
            /\ tasks[i].calls <= 3
            /\ (tasks[i].st = "settled" /\ answered(tasks[i])) => tasks[i].calls = tasks[i].attempt + 1
            /\ (tasks[i].st = "settled" /\ ~answered(tasks[i])) => tasks[i].calls = 3)
    /\ [][\A i \in DOMAIN tasks :
            (tasks[i].st = "settled" /\ tasks' # <<>>) => (i \in DOMAIN tasks' /\ tasks'[i] = tasks[i])]_vars

\* C2 witness: one task succeeded on its third invocation while another failed
\* three times.
C2_Witness ==
    \E i, j \in DOMAIN tasks :
        /\ tasks[i].st = "settled" /\ answered(tasks[i]) /\ tasks[i].calls = 3
        /\ tasks[j].st = "settled" /\ ~answered(tasks[j]) /\ tasks[j].calls = 3

\* Every PairResult recorded so far: the current chain's and the finished chains'.
RECURSIVE rawOf(_)
rawOf(crs) == IF crs = <<>> THEN <<>> ELSE crs[1].raw \o rawOf(Tail(crs))

allResults == rawOf(chainReports) \o pairResults

\* C3: a provider that failed on all 3 attempts yields, at its place in the
\* returned list, a quote with exactly the properties source and error, the
\* quotes of the providers that got an answer are the normalized answers, and
\* every error quote kept in a PairResult has only source and error.
C3_RetryExhaustion ==
    /\ pc = "collected" =>
          \A i \in 1..Len(tasks) :
              IF tasks[i].calls = 3 /\ ~answered(tasks[i])
              THEN /\ DOMAIN quotes[i] = {"source", "error"}
                   /\ quotes[i].source = tasks[i].agg
                   /\ quotes[i].error[1] = labelOf(tasks[i].agg, curPair)
              ELSE /\ "error" \notin DOMAIN quotes[i]
                   /\ quotes[i] = ownQuote(tasks[i], curPair)
    /\ \A k \in 1..Len(allResults) :
          "quotes" \in DOMAIN allResults[k] =>
              \A i \in 1..Len(allResults[k].quotes) :
                  "error" \in DOMAIN allResults[k].quotes[i] =>
                      DOMAIN allResults[k].quotes[i] = {"source", "error"}

\* C3 witness: a recorded PairResult holds an error quote of a provider that
\* sent three requests, next to a priced quote.
C3_Witness ==
    \E k \in 1..Len(allResults) :
        /\ allResults[k].chainId = 1
        /\ "quotes" \in DOMAIN allResults[k]
        /\ \E i, j \in 1..Len(allResults[k].quotes) :
              /\ "error" \in DOMAIN allResults[k].quotes[i]
              /\ allResults[k].quotes[i].error[3] \in NetworkErrors
              /\ Truthy(Prop(allResults[k].quotes[j], "price"))

(***************************************************************************)
(* Properties of the liquidity gate and of the run as a whole.             *)
(***************************************************************************)
\* The configured pair a PairResult was recorded for.
pairOfResult(r) ==
    LET c == CHOOSE c \in 1..Len(Chains) : Chains[c].id = r.chainId
        ps == pairsOf(Chains[c])
    IN  ps[CHOOSE j \in 1..Len(ps) : ps[j].name = r.pair]

\* The human buy amount of a quote; a quote without one (an error quote) counts as 0.
humanBuy(q) ==
    IF "buyAmountHuman" \in DOMAIN q /\ q.buyAmountHuman.k = "num" THEN q.buyAmountHuman ELSE Zero

\* The maximum human buy amount over qs is below min.
maxBuyBelow(qs, min) ==
    /\ \A i \in 1..Len(qs) : NumLess(humanBuy(qs[i]), min)
    /\ Len(qs) = 0 => NumLess(Zero, min)

thinLiquidity(r) ==
    /\ "quotes" \in DOMAIN r
    /\ "minBuyAmount" \in DOMAIN pairOfResult(r)
    /\ maxBuyBelow(r.quotes, pairOfResult(r).minBuyAmount)

sameEntry(a, r) == a.chainId = r.chainId /\ a.pair = r.pair

\* C5: every recorded PairResult whose pair declares minBuyAmount and whose
\* maximum human buy amount over all its quotes is below it carries a
\* liquidity flag, has no spread_percent, best or worst, and is in no chain's
\* opportunities list and not in the report's top list.
C5_LiquiditySuppression ==
    \A k \in 1..Len(allResults) :
        thinLiquidity(allResults[k]) =>
            /\ Prop(allResults[k], "liquidity_flag") # Undefined
            /\ DOMAIN allResults[k] \cap {"spread_percent", "best", "worst"} = {}
            /\ \A c \in 1..Len(chainReports) : \A o \in 1..Len(chainReports[c].opportunities) :
                  ~sameEntry(chainReports[c].opportunities[o], allResults[k])
            /\ report # Null =>
                  \A t \in 1..Len(report.top) : ~sameEntry(report.top[t], allResults[k])

\* C5 witness: the report is written, it ranks some pair, and a thin-liquidity
\* pair whose quotes give a spread (0.98 against 0.8) is recorded in it.
C5_Witness ==
    /\ pc = "done"
    /\ Len(report.top) > 0
    /\ \E k \in 1..Len(allResults) :
          /\ thinLiquidity(allResults[k])
          /\ computeSpread(allResults[k].quotes) # Null
          /\ computeSpread(allResults[k].quotes).spread_percent = Num(45, 2)

\* Each chain report's raw list holds one PairResult per configured pair, in order.
rawListsComplete ==
    /\ Len(report.chains) = Len(enabledChains)
    /\ \A c \in 1..Len(enabledChains) :
          LET raw == report.chains[c].raw
              ps == pairsOf(enabledChains[c])
          IN  /\ Len(raw) = Len(ps)
              /\ \A j \in 1..Len(ps) :
                    raw[j].pair = ps[j].name /\ raw[j].chainId = enabledChains[c].id

\* C10: under FairSpec every run reaches the state where the report is written,
\* and the written report holds, for each evaluated chain, exactly one
\* PairResult per configured pair in configuration order.
C10_ScanCompletes ==
    /\ <>(pc = "written")
    /\ [](pc \in {"written", "webhook", "done"} => rawListsComplete)

\* C10 witness: the report is written after a pair's evaluation raised, a price
\* lookup failed or came back empty (fallback sizing of 1 token), and a provider
\* exhausted its retries on network failures.
C10_Witness ==
    /\ pc = "written"
    /\ \E k \in 1..Len(allResults) : "error" \in DOMAIN allResults[k]
    /\ \E k \in 1..Len(allResults) :
          /\ allResults[k].pair = "WETH/USDC"
          /\ allResults[k].sellAmount = Int2Num(1)
          /\ \E i \in 1..Len(allResults[k].quotes) :
                /\ "error" \in DOMAIN allResults[k].quotes[i]
                /\ allResults[k].quotes[i].error[3] \in NetworkErrors

(***************************************************************************)
(* computeSpread and the tail of analyzePair on arbitrary quote lists: a   *)
(* list of up to MaxQuotes quotes, the i-th from the i-th aggregator,      *)
(* each the normalized quote of some answer or the error quote of a        *)
(* provider that failed.  fnArg holds the call, fnRet what it returned.    *)
(***************************************************************************)
MaxQuotes == 3

QuoteAggs == <<"0x", "1inch", "paraswap", "cow">>

aggAt(i) == QuoteAggs[((i - 1) % Len(QuoteAggs)) + 1]

\* Answers a provider can send: two ordinary prices, a zero and a negative
\* amount, an answer without the fields, and a zero sell amount (price Infinity).
SpreadPayloads ==
    { [price |-> Num(51, 50), buyAmount |-> Int2Num(10200), sellAmount |-> Int2Num(10000)],
      [price |-> Num(49, 50), buyAmount |-> Int2Num(9800), sellAmount |-> Int2Num(10000)],
      [price |-> Zero, buyAmount |-> Zero, sellAmount |-> Int2Num(10000)],
      [price |-> Int2Num(-1), buyAmount |-> Int2Num(-10000), sellAmount |-> Int2Num(10000)],
      [price |-> Undefined, buyAmount |-> Undefined, sellAmount |-> Undefined],
      [price |-> PosInf, buyAmount |-> Int2Num(10200), sellAmount |-> Zero] }

\* What a task settles with: an answer, or no answer after the last attempt.
Answers == [ok : {TRUE}, data : SpreadPayloads] \cup [ok : {FALSE}, data : {NoPayload}]

\* collectQuotes, lines 161-168, for settled tasks.
quotesOf(as, pair) ==
    [i \in 1..Len(as) |->
        IF as[i].ok
        THEN normalizeQuote(adapterResult(aggAt(i), as[i].data), pair)
        ELSE errorQuote(aggAt(i), decorateError("timeout of 12000ms exceeded", labelOf(aggAt(i), pair)))]

AnalyzeInit ==
    /\ MainInit
    /\ \E n \in 0..MaxQuotes, pair \in {PairUsd, PairMin} :
          \E as \in [1..n -> Answers] :
              fnArg = [k |-> "analyzePair", chain |-> Chains[2], pair |-> pair,
                       sell |-> sizeFallback(pair, Chains[2]), quotes |-> quotesOf(as, pair)]
    /\ fnRet = Null

\* analyzePair, lines 192-219, on the quotes collected.
ApplyAnalyze ==
    /\ fnArg.k = "analyzePair"
    /\ fnRet = Null
    /\ fnRet' = [k |-> "analyzed", spread |-> computeSpread(fnArg.quotes),
                 result |-> analyzeResult(fnArg.chain, fnArg.pair, fnArg.sell, fnArg.quotes)]
    /\ UNCHANGED <<mainVars, fnArg>>

AnalyzeNext == ApplyAnalyze

AnalyzeSpec == AnalyzeInit /\ [][AnalyzeNext]_vars

\* A quote with a finite, positive price.
positivePrice(q) == "price" \in DOMAIN q /\ q.price.k = "num" /\ q.price.n > 0

qualifying(qs) == SelectSeq(qs, positivePrice)

\* C4: for a quote list with fewer than 2 quotes of finite, positive price
\* (error quotes, absent, zero, negative and non-finite prices not counting),
\* computeSpread returns no spread and the PairResult has no spread_percent,
\* best or worst.
C4_NoSpreadBelowTwo ==
    (fnRet.k = "analyzed" /\ Len(qualifying(fnArg.quotes)) < 2) =>
        /\ fnRet.spread = Null
        /\ DOMAIN fnRet.result \cap {"spread_percent", "best", "worst"} = {}

\* The prices of the qualifying quotes of qs, in order.
qualifyingPrices(qs) == [i \in 1..Len(qualifying(qs)) |-> qualifying(qs)[i].price]

\* (max - min) / min * 100
spreadFormula(max, min) == NumMul(NumDiv(NumSub(max, min), min), Int2Num(100))

\* C6: for a quote list with at least 2 qualifying (finite, positive) prices,
\* computeSpread returns spread_percent = (max - min) / min * 100, max and min
\* being the largest and the smallest qualifying price.
C6_SpreadFormula ==
    (fnRet.k = "analyzed" /\ Len(qualifying(fnArg.quotes)) >= 2) =>
        /\ fnRet.spread # Null
        /\ fnRet.spread.spread_percent =
              spreadFormula(SeqMax(qualifyingPrices(fnArg.quotes)), SeqMin(qualifyingPrices(fnArg.quotes)))

\* The source of the first quote of qs, in provider order, that qualifies and has price p.
firstSourceAt(qs, p) ==
    qs[CHOOSE i \in 1..Len(qs) :
          /\ positivePrice(qs[i]) /\ qs[i].price = p
          /\ \A j \in 1..(i - 1) : ~(positivePrice(qs[j]) /\ qs[j].price = p)].source

\* C7: for a quote list with at least 2 qualifying prices, best is the source
\* of the first quote in provider order with the maximum qualifying price and
\* worst the source of the first quote with the minimum qualifying price.
C7_BestWorstFirstExtreme ==
    (fnRet.k = "analyzed" /\ Len(qualifying(fnArg.quotes)) >= 2) =>
        /\ fnRet.spread # Null
        /\ fnRet.spread.best = firstSourceAt(fnArg.quotes, SeqMax(qualifyingPrices(fnArg.quotes)))
        /\ fnRet.spread.worst = firstSourceAt(fnArg.quotes, SeqMin(qualifyingPrices(fnArg.quotes)))

(***************************************************************************)
(* Properties of the ranking: the chains' opportunities and the top list.  *)
(***************************************************************************)
\* A PairResult with a defined spread_percent.
definedSpread(r) == "spread_percent" \in DOMAIN r

\* ops is the subsequence of the results of raw with a defined spread_percent,
\* each exactly once, by spread_percent descending, ties in raw order: f gives
\* the place in raw of each entry of ops.
rankedSelection(ops, raw) ==
    \E f \in [1..Len(ops) -> 1..Len(raw)] :
        /\ {f[k] : k \in 1..Len(ops)} = {i \in 1..Len(raw) : definedSpread(raw[i])}
        /\ \A k \in 1..Len(ops) : ops[k] = raw[f[k]]
        /\ \A k, l \in 1..Len(ops) :
              k < l => /\ ~NumLess(ops[k].spread_percent, ops[l].spread_percent)
                       /\ ops[k].spread_percent = ops[l].spread_percent => f[k] < f[l]

\* C8: in every chain report, opportunities holds exactly the PairResults of
\* raw that have a defined spread_percent (a spread of 0 included), each once,
\* by spread_percent descending with ties in raw order.
C8_OpportunitiesExact ==
    \A c \in 1..Len(chainReports) :
        rankedSelection(chainReports[c].opportunities, chainReports[c].raw)

(***************************************************************************)
(* The report on arbitrary chain reports: up to MaxChains chains of up to  *)
(* MaxPairs pairs each, every PairResult the outcome of analyzePair on     *)
(* some quotes (or of its failure), every chain report built by line 278.  *)
(***************************************************************************)
MaxChains == 2
MaxPairs == 11

answerOf(price) == [ok |-> TRUE, data |-> CHOOSE d \in Payloads \cup SpreadPayloads : d.price = price]

noAnswer == [ok |-> FALSE, data |-> NoPayload]

\* What happened to a pair: analyzePair raised, or the providers settled with these answers.
ResultKinds ==
    << [failed |-> FALSE, answers |-> <<answerOf(Num(51, 50)), answerOf(Num(49, 50))>>],
       [failed |-> FALSE, answers |-> <<answerOf(Num(49, 50)), answerOf(Num(4, 5))>>],
       [failed |-> FALSE, answers |-> <<answerOf(Num(4, 5)), answerOf(Num(51, 50))>>],
       [failed |-> FALSE, answers |-> <<answerOf(Num(49, 50)), answerOf(Num(51, 50))>>],
       [failed |-> FALSE, answers |-> <<answerOf(Num(51, 50)), answerOf(Num(51, 50))>>],
       [failed |-> FALSE, answers |-> <<noAnswer, answerOf(Num(51, 50))>>],
       [failed |-> TRUE, answers |-> <<>>] >>

\* The kinds the pairs of a run cycle through.
Patterns == << <<1, 2, 3>>, <<1, 4, 1, 2>>, <<1, 5, 2, 6, 7, 3>>, <<2, 2, 2>> >>

kindAt(p, c, j) == ResultKinds[Patterns[p][((c + j) % Len(Patterns[p])) + 1]]

chainNo(c) == [id |-> c, name |-> "CHAIN" \o ToString(c)]

pairNo(j) ==
    [name |-> "PAIR" \o ToString(j), fromSymbol |-> "WETH", toSymbol |-> "USDC",
     fromDecimals |-> Int2Num(2), toDecimals |-> Int2Num(2)]

\* main, lines 270-275, for one pair.
resultOfKind(chain, pair, kind) ==
    IF kind.failed THEN pairError(chain, pair, "RangeError: cannot be converted to a BigInt")
    ELSE analyzeResult(chain, pair, sizeFallback(pair, chain), quotesOf(kind.answers, pair))

ReportInit ==
    /\ MainInit
    /\ \E p \in 1..Len(Patterns), nc \in 1..MaxChains :
          \E lens \in [1..nc -> 0..MaxPairs] :
              fnArg = [k |-> "report",
                       chains |-> [c \in 1..nc |->
                           chainReportOf(chainNo(c), [j \in 1..lens[c] |-> resultOfKind(chainNo(c), pairNo(j), kindAt(p, c, j))])]]
    /\ fnRet = Null

\* main, lines 281-292.
ApplyReport ==
    /\ fnArg.k = "report"
    /\ fnRet = Null
    /\ fnRet' = [k |-> "reported", report |-> reportOf(fnArg.chains)]
    /\ UNCHANGED <<mainVars, fnArg>>

ReportNext == ApplyReport

ReportSpec == ReportInit /\ [][ReportNext]_vars

\* The places <<chain report, index>> of the chains' opportunities.
places(crs) == UNION {{<<c, o>> : o \in 1..Len(crs[c].opportunities)} : c \in 1..Len(crs)}

\* The place an entry of top was taken from (a pair is evaluated once per chain).
placeOf(crs, e) == CHOOSE pl \in places(crs) : crs[pl[1]].opportunities[pl[2]] = e

\* Place a comes before place b in the merged list.
before(a, b) == a[1] < b[1] \/ (a[1] = b[1] /\ a[2] < b[2])

\* C9: the top list has length min(20, number of opportunities over all
\* chains), each entry is an entry of some chain's opportunities list, the
\* entries are in non-increasing order of spread_percent with equal spreads in
\* the order of the merged lists, and no opportunity left out has a larger
\* spread than one taken.
C9_TopList ==
    fnRet.k = "reported" =>
        LET crs == fnArg.chains
            top == fnRet.report.top
            total == Cardinality(places(crs))
        IN  /\ Len(top) = IF total < 20 THEN total ELSE 20
            /\ \A k \in 1..Len(top) : \E pl \in places(crs) : crs[pl[1]].opportunities[pl[2]] = top[k]
            /\ \A k, l \in 1..Len(top) :
                  k < l => /\ ~NumLess(top[k].spread_percent, top[l].spread_percent)
                           /\ top[k].spread_percent = top[l].spread_percent =>
                                 before(placeOf(crs, top[k]), placeOf(crs, top[l]))
            /\ \A pl \in places(crs), k \in 1..Len(top) :
                  NumLess(top[k].spread_percent, crs[pl[1]].opportunities[pl[2]].spread_percent) =>
                      \E l \in 1..Len(top) : top[l] = crs[pl[1]].opportunities[pl[2]]

\* C9 witness: more than 20 opportunities over two chains, a top list of 20
\* that holds entries of both chains, two of them from different chains with
\* the same spread, and spreads that differ.
C9_Witness ==
    /\ fnRet.k = "reported"
    /\ Cardinality(places(fnArg.chains)) > 20
    /\ Len(fnRet.report.top) = 20
    /\ \E k, l \in 1..20 :
          /\ k < l
          /\ fnRet.report.top[k].chainId # fnRet.report.top[l].chainId
          /\ fnRet.report.top[k].spread_percent = fnRet.report.top[l].spread_percent
    /\ fnRet.report.top[1].spread_percent # fnRet.report.top[20].spread_percent

(***************************************************************************)
(* Properties of the scheduling: order of the quotes, retries and their    *)
(* delays, the sequence of pairs, the price cache, the webhook.            *)
(***************************************************************************)
\* The sources of a list of quotes, in order.
sourcesOf(qs) == [i \in 1..Len(qs) |-> qs[i].source]

\* The chain a PairResult was recorded for.
chainOfResult(r) == Chains[CHOOSE c \in 1..Len(Chains) : Chains[c].id = r.chainId]

\* C11: the quotes collectQuotes returns list the providers in the order of the
\* chain's configuration, whatever the order in which the provider tasks
\* settled, and so do the quotes kept in every recorded PairResult.
C11_ConfigurationOrder ==
    /\ pc = "collected" =>
          /\ sourcesOf(quotes) = aggregatorsOf(curChain)
          /\ {completion[k] : k \in 1..Len(completion)} = 1..Len(quotes)
    /\ \A k \in 1..Len(allResults) :
          "quotes" \in DOMAIN allResults[k] =>
              sourcesOf(allResults[k].quotes) = aggregatorsOf(chainOfResult(allResults[k]))

\* C11 witness: collectQuotes returned although the provider listed second
\* settled first, with an answer, before the first one succeeded on a retry.
C11_Witness ==
    /\ pc = "collected"
    /\ completion = <<2, 1>>
    /\ answered(tasks[1]) /\ tasks[1].calls = 2
    /\ answered(tasks[2]) /\ tasks[2].calls = 1
    /\ quotes[1].price # quotes[2].price

(***************************************************************************)
(* calculateSellAmount on pairs and chains of the documented shape, with   *)
(* every outcome of the price lookup.                                      *)
(***************************************************************************)
\* The token decimals the sizing runs with.
SizeDecimals == {0, 2, 6}

\* A record with the key f when v is a value, without it when v is Undefined.
optional(f, v) == IF v = Undefined THEN <<>> ELSE [x \in {f} |-> v]

SizePairs ==
    { [name |-> "WETH/USDC", fromSymbol |-> "WETH", toSymbol |-> "USDC",
       fromDecimals |-> Int2Num(dec), toDecimals |-> Int2Num(2)]
          @@ optional("usdSellTarget", target) @@ optional("sampleSellAmount", fixed)
          @@ (IF hasId THEN [coingeckoId |-> "weth"] ELSE <<>>) :
       dec \in SizeDecimals, target \in {Undefined, Int2Num(20), Int2Num(2500)},
       fixed \in {Undefined, Num(5, 2)}, hasId \in BOOLEAN }

SizeChains ==
    { [id |-> 1, name |-> "Ethereum", aggregators |-> <<"0x", "cow">>] @@ optional("defaultUsdSell", dflt) :
       dflt \in {Undefined, Int2Num(50), Int2Num(3000)} }

\* What fetchTokenUsdPrice's request comes to: it fails, or data[id].usd is usd.
LookupOutcomes ==
    [raised : {FALSE}, usd : {Int2Num(4), Num(5, 2), Zero, Undefined}] \cup [raised : {TRUE}, usd : {Undefined}]

\* The states of priceCache the sizing starts from.
SizeCaches == << <<>>, [x \in {"weth"} |-> Int2Num(4)], [x \in {"dai"} |-> Int2Num(1)] >>

\* line 67: what fetchTokenUsdPrice comes to given the cache: the cached price, else the request's outcome.
lookupSeen(pair, lookup, cache) ==
    IF "coingeckoId" \in DOMAIN pair /\ pair.coingeckoId \in DOMAIN cache
    THEN [raised |-> FALSE, usd |-> cache[pair.coingeckoId]]
    ELSE lookup

\* calculateSellAmount, lines 75-97, lookup being what fetchTokenUsdPrice (65-73) comes to.
calculateSellAmount(pair, chain, lookup) ==
    IF Truthy(Prop(pair, "sampleSellAmount")) THEN sizeFixed(pair)
    ELSE IF "coingeckoId" \notin DOMAIN pair THEN sizeFromLookup(pair, chain, Null, FALSE)
    ELSE IF lookup.raised THEN sizeFromLookup(pair, chain, Null, TRUE)
    ELSE sizeFromLookup(pair, chain, IF Truthy(lookup.usd) THEN lookup.usd ELSE Null, FALSE)

SizeInit ==
    /\ pc = "main" /\ ci = 1 /\ pi = 1
    /\ sellInfo = Null /\ tasks = <<>> /\ quotes = <<>>
    /\ pairResults = <<>> /\ chainReports = <<>> /\ report = Null
    /\ posted = 0 /\ lookupsSent = <<>> /\ completion = <<>>
    /\ webhook = [url |-> "unread", delivery |-> "none"]
    /\ enabledChains = Chains
    /\ \E c \in 1..Len(SizeCaches) : priceCache = SizeCaches[c]
    /\ \E pair \in SizePairs, chain \in SizeChains, lookup \in LookupOutcomes :
          fnArg = [k |-> "calculateSellAmount", pair |-> pair, chain |-> chain, lookup |-> lookup]
    /\ fnRet = Null

\* calculateSellAmount with its effects on priceCache (line 71) and on the price service (line 69).
ApplySize ==
    /\ fnArg.k = "calculateSellAmount"
    /\ fnRet = Null
    /\ fnRet' = [k |-> "sized",
                 out |-> calculateSellAmount(fnArg.pair, fnArg.chain, lookupSeen(fnArg.pair, fnArg.lookup, priceCache))]
    /\ lookupsSent' = IF lookupDue(fnArg.pair, priceCache) THEN Append(lookupsSent, fnArg.pair.coingeckoId) ELSE lookupsSent
    /\ priceCache' = IF lookupDue(fnArg.pair, priceCache) /\ ~fnArg.lookup.raised
                     THEN cacheAfter(priceCache, fnArg.pair.coingeckoId, fnArg.lookup.usd)
                     ELSE priceCache
    /\ UNCHANGED <<pc, ci, pi, sellInfo, tasks, quotes, pairResults, chainReports, report, enabledChains, posted,
                   completion, webhook, fnArg>>

SizeNext == ApplySize

SizeSpec == SizeInit /\ [][SizeNext]_vars

\* The USD target of the claim: the pair's override, else the chain's default, else 10.
usdTargetClaimed(pair, chain) ==
    IF "usdSellTarget" \in DOMAIN pair THEN pair.usdSellTarget
    ELSE IF "defaultUsdSell" \in DOMAIN chain THEN chain.defaultUsdSell
    ELSE Int2Num(10)

\* max(1, usdTarget / 1000)
fallbackTokens(pair, chain) ==
    IF NumLess(Int2Num(1000), usdTargetClaimed(pair, chain))
    THEN NumDiv(usdTargetClaimed(pair, chain), Int2Num(1000)) ELSE Int2Num(1)

\* The lookup gave no price: no lookup id, or a request was sent and it failed
\* or its answer held no price.
noPrice(pair, lookup) ==
    \/ "coingeckoId" \notin DOMAIN pair
    \/ lookupsSent # <<>> /\ (lookup.raised \/ ~Truthy(lookup.usd))

\* C12: for a pair without a fixed sell amount calculateSellAmount returns a
\* sizing and never raises, and when the price lookup raised or returned
\* nothing the sizing is the fallback: max(1, usdTarget / 1000) tokens
\* (usdTarget the pair's override, else the chain's default, else 10), the raw
\* amount being that count times 10^decimals, rounded down to a whole unit.
C12_FallbackSizing ==
    (fnRet.k = "sized" /\ "sampleSellAmount" \notin DOMAIN fnArg.pair) =>
        /\ DOMAIN fnRet.out = {"raw", "human"}
        /\ noPrice(fnArg.pair, fnArg.lookup) =>
              /\ fnRet.out.human = fallbackTokens(fnArg.pair, fnArg.chain)
              /\ fnRet.out.raw = MathFloor(NumMul(fallbackTokens(fnArg.pair, fnArg.chain),
                                                  Int2Num(Pow10(fnArg.pair.fromDecimals.n))))

\* C12 witness: the lookup request failed for a pair with a USD target of 2500
\* and 2 decimals, and the sizing is 2.5 tokens, 250 raw units.
C12_Witness ==
    /\ fnRet.k = "sized"
    /\ "sampleSellAmount" \notin DOMAIN fnArg.pair
    /\ fnArg.lookup.raised
    /\ lookupsSent = <<"weth">>
    /\ fnRet.out = [raw |-> Int2Num(250), human |-> Num(5, 2)]

\* The provider has no endpoint for the chain (lines 100-101, 123-124).
unsupportedChain(agg, chainId) ==
    \/ agg = "0x" /\ chainId \notin OX_HOSTS
    \/ agg = "cow" /\ chainId \notin COW_HOSTS

\* C13: a provider without an endpoint for the chain is invoked at most once
\* for the pair and takes no backoff delay: its task settles on the first
\* failure with the provider's error quote.
C13_UnsupportedNotRetried ==
    pc \in {"collect", "collected"} =>
        \A i \in DOMAIN tasks :
            unsupportedChain(tasks[i].agg, curChain.id) =>
                /\ tasks[i].calls <= 1
                /\ tasks[i].slept = <<>>
                /\ tasks[i].st = "settled"
                /\ DOMAIN tasks[i].quote = {"source", "error"}

\* The number of pairs configured for the chains cs.
RECURSIVE pairsConfigured(_)
pairsConfigured(cs) == IF cs = <<>> THEN 0 ELSE Len(pairsOf(cs[1])) + pairsConfigured(Tail(cs))

\* The number of PairResults in the raw lists of the chain reports crs.
RECURSIVE resultsRecorded(_)
resultsRecorded(crs) == IF crs = <<>> THEN 0 ELSE Len(crs[1].raw) + resultsRecorded(Tail(crs))

\* C14: in the emitted report summary.total_chains is the number of chain
\* reports, summary.total_pairs is the number of pairs evaluated over all
\* chains (one per configured pair of an evaluated chain, failed ones
\* included) and summary.candidates is the length of the top list.
C14_SummaryCounts ==
    report # Null =>
        /\ report.summary.total_chains = Len(report.chains)
        /\ report.summary.total_pairs = resultsRecorded(report.chains)
        /\ report.summary.total_pairs = pairsConfigured(enabledChains)
        /\ report.summary.candidates = Len(report.top)

\* C14 witness: a report over both chains with a failed pair among 4 pairs and
\* with at least one candidate.
C14_Witness ==
    /\ report # Null
    /\ report.summary.total_chains = 2
    /\ report.summary.total_pairs = 4
    /\ report.summary.candidates >= 1
    /\ \E k \in 1..Len(report.chains[1].raw) : "error" \in DOMAIN report.chains[1].raw[k]

\* C15: the webhook post is issued at most once per run, only with a webhook
\* configured and a non-empty top list, and only once the report files are
\* written (a configured webhook with a non-empty top list is posted to by the
\* end of the run); from the writing of the files on the report never
\* changes, and a run whose delivery failed still ends normally.
C15_WebhookOnce ==
    /\ [](/\ posted <= 1
          /\ posted = 1 => /\ webhook.url = "set"
                           /\ pc \in {"webhook", "done"}
                           /\ Len(report.top) > 0
          /\ (pc = "done" /\ webhook.url = "set" /\ Len(report.top) > 0) => posted = 1
          /\ webhook.delivery # "none" => pc = "done")
    /\ [][/\ posted' # posted => pc = "written"
          /\ pc \in {"written", "webhook", "done"} => report' = report]_vars

\* C15 witness: the run ended after the one post it issued failed.
C15_Witness ==
    /\ pc = "done"
    /\ posted = 1
    /\ webhook = [url |-> "set", delivery |-> "failed"]
    /\ Len(report.top) > 0

\* A task with a request in flight or a backoff delay pending.
pending(t) == t.st \in {"inflight", "backoff"}

\* C16: at every point of a run all in-flight requests and pending backoff
\* delays belong to the pair being evaluated, none is pending while a pair is
\* sized, and the run moves to the next pair (or sends the next price lookup)
\* only when every provider task has settled.
C16_OnePairAtATime ==
    /\ [](/\ \A i \in DOMAIN tasks : pending(tasks[i]) => (pc = "collect" /\ tasks[i].label[2] = curPair.name)
          /\ pc \in {"main", "lookup"} => \A i \in DOMAIN tasks : ~pending(tasks[i]))
    /\ [][(pi' # pi \/ ci' # ci \/ lookupsSent' # lookupsSent) =>
              \A i \in DOMAIN tasks : ~pending(tasks[i])]_vars

\* C16 witness: the second pair of Ethereum is being quoted, one provider with
\* a request in flight and the other in backoff, after the first pair's
\* result, with its quotes, was recorded.
C16_Witness ==
    /\ pc = "collect"
    /\ curChain.id = 1
    /\ pi = 2
    /\ tasks[1].st = "inflight"
    /\ tasks[2].st = "backoff"
    /\ Len(pairResults) = 1
    /\ "quotes" \in DOMAIN pairResults[1]

\* A task that succeeded, or failed on its last attempt.
finished(t) == t.st = "settled" /\ (answered(t) \/ t.calls = MAX_RETRIES + 1)

\* C17: while collectQuotes waits there is one task per enabled provider and
\* each has made its first attempt; whatever its siblings are doing, a task
\* with a request in flight can take the answer and a task in backoff can make
\* its next attempt; and collectQuotes returns only when every task has
\* succeeded or exhausted its retries, not when the first one fails.
C17_JointDispatchAndJoin ==
    /\ [](pc = "collect" =>
             /\ Len(tasks) = Len(aggregatorsOf(curChain))
             /\ \A i \in DOMAIN tasks :
                   /\ tasks[i].calls >= 1
                   /\ tasks[i].st = "inflight" => \A data \in Payloads : ENABLED AttemptSucceeds(i, data)
                   /\ tasks[i].st = "backoff" => ENABLED BackoffEnds(i))
    /\ [][(pc = "collect" /\ pc' # "collect") =>
              /\ pc' = "collected"
              /\ \A i \in DOMAIN tasks : finished(tasks[i])]_vars

\* C17 witness: one provider has exhausted its retries and collectQuotes still
\* waits for a sibling in backoff, on a chain with three providers.
C17_Witness ==
    /\ pc = "collect"
    /\ Len(tasks) = 3
    /\ \E i, j \in DOMAIN tasks :
          /\ tasks[i].st = "settled" /\ ~answered(tasks[i]) /\ tasks[i].calls = 3
          /\ tasks[j].st = "backoff" /\ tasks[j].agg = "paraswap"

\* The number of requests sent to the price service for the lookup id.
requestsFor(id) == Cardinality({k \in 1..Len(lookupsSent) : lookupsSent[k] = id})

\* C18: during a run at most one request is sent to the price service for
\* each lookup id, whether that request failed, returned no price or
\* returned one.
C18_OneLookupPerId ==
    \A k \in 1..Len(lookupsSent) : requestsFor(lookupsSent[k]) <= 1

\* The evaluation of the current pair ends in this step without quotes having
\* been collected: analyzePair raised.
pairRaises == pc \in {"main", "lookup"} /\ pc' = "main" /\ pi' = pi + 1

\* r is the result of a failed evaluation of the pair.
failedResult(r, chain, pair) ==
    /\ DOMAIN r = {"pair", "chainId", "chain", "error"}
    /\ r.pair = pair.name /\ r.chainId = chain.id /\ r.chain = chain.name

\* C19: when the evaluation of a pair raises, exactly one PairResult is added
\* to the chain's list, for that pair, with an error field and without
\* spread_percent; such a result is counted in total_pairs and is in no
\* opportunities list and not in top; and the written report holds a result
\* for every pair of every evaluated chain, those after the failed pair
\* included.
C19_PairFailureContained ==
    /\ [][pairRaises =>
              /\ Len(pairResults') = Len(pairResults) + 1
              /\ SubSeq(pairResults', 1, Len(pairResults)) = pairResults
              /\ failedResult(pairResults'[Len(pairResults')], curChain, curPair)]_vars
    /\ [](/\ \A c \in 1..Len(chainReports) :
                /\ chainReports[c].total_pairs = Len(chainReports[c].raw)
                /\ \A o \in 1..Len(chainReports[c].opportunities) :
                      "error" \notin DOMAIN chainReports[c].opportunities[o]
          /\ report # Null =>
                /\ rawListsComplete
                /\ \A t \in 1..Len(report.top) : "error" \notin DOMAIN report.top[t])

\* C19 witness: the written report holds the failed first pair of Optimism,
\* the result of the pair after it with its quotes, counts both, and ranks a
\* pair of the next chain.
C19_Witness ==
    /\ report # Null
    /\ Len(report.chains) = 2
    /\ failedResult(report.chains[1].raw[1], Chains[1], BadPair)
    /\ "quotes" \in DOMAIN report.chains[1].raw[2]
    /\ report.chains[1].total_pairs = 2
    /\ Len(report.chains[2].opportunities) > 0
    /\ Len(report.top) > 0

\* The delays before retries 1..n: 500 ms times the number of the retry.
linearDelays(n) == [k \in 1..n |-> 500 * k]

\* C20: the delays a task has taken are 500 ms before its second attempt and
\* 1000 ms before its third: one delay per failed attempt but the last, none
\* before the first attempt and none after the failure of the third.
C20_LinearBackoff ==
    \A i \in DOMAIN tasks :
        /\ tasks[i].slept = linearDelays(Len(tasks[i].slept))
        /\ Len(tasks[i].slept) <= 2
        /\ tasks[i].st = "backoff" => Len(tasks[i].slept) = tasks[i].calls
        /\ tasks[i].st \in {"inflight", "settled"} => Len(tasks[i].slept) = tasks[i].calls - 1

\* C20 witness: a task failed for good after delays of 500 and 1000 ms, next to
\* a task that was answered on its second attempt after one delay of 500 ms.
C20_Witness ==
    \E i, j \in DOMAIN tasks :
        /\ tasks[i].st = "settled" /\ ~answered(tasks[i]) /\ tasks[i].slept = <<500, 1000>>
        /\ tasks[j].st = "settled" /\ answered(tasks[j]) /\ tasks[j].slept = <<500>>

\* C21: for a pair with a fixed sell amount calculateSellAmount returns that
\* amount, whatever USD targets the pair and the chain set: the raw amount is
\* floor(amount * 10^decimals), no request is sent to the price service and
\* the price cache is as it was.
C21_FixedAmountFirst ==
    /\ []((fnRet.k = "sized" /\ "sampleSellAmount" \in DOMAIN fnArg.pair) =>
             /\ fnRet.out.human = fnArg.pair.sampleSellAmount
             /\ fnRet.out.raw = MathFloor(NumMul(fnArg.pair.sampleSellAmount,
                                                 Int2Num(Pow10(fnArg.pair.fromDecimals.n))))
             /\ lookupsSent = <<>>)
    /\ [][(fnArg.k = "calculateSellAmount" /\ "sampleSellAmount" \in DOMAIN fnArg.pair) =>
              (priceCache' = priceCache /\ lookupsSent' = lookupsSent)]_vars

\* C21 witness: 2.5 tokens with 6 decimals are sized to 2500000 raw units for a
\* pair with a USD target, a chain default and a lookup id whose price (4) was
\* there to be fetched, and the cache is still empty.
C21_Witness ==
    /\ fnRet.k = "sized"
    /\ fnArg.pair.fromDecimals = Int2Num(6)
    /\ "sampleSellAmount" \in DOMAIN fnArg.pair /\ fnArg.pair.sampleSellAmount = Num(5, 2)
    /\ "usdSellTarget" \in DOMAIN fnArg.pair
    /\ "defaultUsdSell" \in DOMAIN fnArg.chain
    /\ "coingeckoId" \in DOMAIN fnArg.pair
    /\ ~fnArg.lookup.raised /\ fnArg.lookup.usd = Int2Num(4)
    /\ priceCache = <<>>
    /\ fnRet.out.raw = Int2Num(2500000)

\* C22: every entry of the price cache is a non-zero price; an entry is never
\* removed or overwritten; a new entry is the price a request for that id
\* just returned; and a lookup that fails or returns nothing leaves the cache
\* as it was.
C22_CacheGrowsWithPrices ==
    /\ [](\A id \in DOMAIN priceCache : priceCache[id].k = "num" /\ priceCache[id].n # 0)
    /\ [][/\ \A id \in DOMAIN priceCache : id \in DOMAIN priceCache' /\ priceCache'[id] = priceCache[id]
          /\ \A id \in DOMAIN priceCache' \ DOMAIN priceCache :
                /\ fnArg.k = "calculateSellAmount"
                /\ lookupsSent' = Append(lookupsSent, id)
                /\ id = fnArg.pair.coingeckoId
                /\ ~fnArg.lookup.raised
                /\ priceCache'[id] = fnArg.lookup.usd
          /\ (fnArg.k = "calculateSellAmount" /\ (fnArg.lookup.raised \/ ~Truthy(fnArg.lookup.usd))) =>
                priceCache' = priceCache]_vars

\* C22 witness: a lookup for weth returned 2.5 and the cache holds it next to
\* the entry for dai it held before.
C22_Witness ==
    /\ fnRet.k = "sized"
    /\ lookupsSent = <<"weth">>
    /\ DOMAIN priceCache = {"dai", "weth"}
    /\ priceCache["dai"] = Int2Num(1)
    /\ priceCache["weth"] = Num(5, 2)

\* A configured provider identifier that matches no adapter.
unknownAggregator(agg) == agg \notin {"0x", "1inch", "paraswap", "cow"}

\* The error quote of an unknown identifier for the pair named.
unknownQuote(agg, pairName) ==
    [source |-> agg, error |-> <<<<agg, pairName>>, "failed", "Unknown aggregator " \o agg>>]

\* C23: the task of a provider identifier without an adapter never has a
\* request in flight; it is retried like any failing provider (3 invocations,
\* delays of 500 and 1000 ms) and settles with the error quote of that
\* identifier; collectQuotes returns that quote at the identifier's configured
\* position, the pair gets a PairResult with its quotes, and the written
\* report holds a result for every pair.
C23_UnknownAggregatorContained ==
    /\ [](/\ \A i \in DOMAIN tasks :
                unknownAggregator(tasks[i].agg) =>
                    /\ tasks[i].st \in {"backoff", "settled"}
                    /\ ~answered(tasks[i])
                    /\ tasks[i].st = "settled" =>
                          /\ tasks[i].calls = 3
                          /\ tasks[i].slept = <<500, 1000>>
                          /\ tasks[i].quote = unknownQuote(tasks[i].agg, curPair.name)
          /\ pc \in {"collect", "collected"} => Len(tasks) = Len(aggregatorsOf(curChain))
          /\ pc = "collected" =>
                /\ Len(quotes) = Len(aggregatorsOf(curChain))
                /\ \A i \in 1..Len(quotes) :
                      unknownAggregator(aggregatorsOf(curChain)[i]) =>
                          quotes[i] = unknownQuote(aggregatorsOf(curChain)[i], curPair.name)
          /\ report # Null => rawListsComplete)
    /\ [][pc = "collected" =>
              /\ Len(pairResults') = Len(pairResults) + 1
              /\ "error" \notin DOMAIN pairResults'[Len(pairResults')]
              /\ pairResults'[Len(pairResults')].quotes = quotes]_vars

\* C23 witness: the run ended, and the result of OP/USDC on Optimism holds
\* the error quote of kyber in third place next to a priced quote of paraswap.
C23_Witness ==
    /\ pc = "done"
    /\ Len(report.chains) = 2
    /\ "quotes" \in DOMAIN report.chains[1].raw[2]
    /\ report.chains[1].raw[2].quotes[3] = unknownQuote("kyber", "OP/USDC")
    /\ Truthy(Prop(report.chains[1].raw[2].quotes[2], "price"))

====
